---- MODULE Spec2Model ----
(***************************************************************************)
(* linkonym (src/main.py): a thesaurus is built from per-part-of-speech    *)
(* XML files (build_word_info), the partial dictionaries are merged        *)
(* (combine_dicionaries, make_word_info_json), the result is written to    *)
(* and read back from word_info.json, and play_game answers word-ladder    *)
(* queries by breadth-first search over the synonym sets.                  *)
(*                                                                         *)
(* Python dictionaries are objects: combine_dicionaries stores references  *)
(* to the source's inner dictionaries in the target.  The inner            *)
(* dictionaries therefore live in a heap (cats, data) and the top-level    *)
(* dictionaries hold object identities.                                    *)
(***************************************************************************)
EXTENDS Integers, Sequences, FiniteSets, TLC

\* ---------------------------------------------------------------- bounds
MaxFiles == 2      \* XML files handed to make_word_info_json
MaxSynsets == 2    \* <synset> elements read over a run that only builds
MaxLadder == 3     \* <synset> elements read over a run that goes on to play
MaxTerms == 3      \* <term> elements of one synset
MaxAnts == 1       \* <ant> elements of one synset

\* ------------------------------------------------------- bounded inputs
\* Text nodes of <term> elements (padded, blank, mixed case, repeated).
RawTerms == {"a", "b", "c", " a", "D", " "}
\* Text nodes of <ant> elements.
RawAnts == {" x", " "}
\* Text nodes of <gloss desc="orig"><orig>.
RawDefs == {" def"}
\* Lines typed at the two prompts of play_game.
RawInputs == {"a", "b", "c", " A", "D", ""}
\* Paths handed to make_word_info_json.
XmlFiles == {"resources/thesaurus/adj.xml", "resources/thesaurus/noun.xml",
             "extra/adj.xml"}

Range(s) == {s[i] : i \in DOMAIN s}

SeqsUpTo(S, n) == UNION {[1..m -> S] : m \in 0..n}

\* str.strip() on the bounded alphabet above.
Strip(s) ==
  CASE s = " a" -> "a"
    [] s = " A" -> "A"
    [] s = " x" -> "x"
    [] s = " def" -> "def"
    [] s = " " -> ""
    [] OTHER -> s

\* str.lower() on the bounded alphabet above.
Lower(s) ==
  CASE s = "A" -> "a"
    [] s = "D" -> "d"
    [] OTHER -> s

\* xml_file.split("/")[-1].split(".")[0]
PartOfSpeech(xml_file) ==
  CASE xml_file = "resources/thesaurus/adj.xml" -> "adj"
    [] xml_file = "resources/thesaurus/noun.xml" -> "noun"
    [] xml_file = "extra/adj.xml" -> "adj"

\* [t.strip() for t in texts if t.strip()]
Cleaned(texts) ==
  SelectSeq([i \in DOMAIN texts |-> Strip(texts[i])], LAMBDA t : t # "")

\* definition_list[0].strip() if definition_list else ""
Definition(definition_list) ==
  IF definition_list # <<>> THEN Strip(definition_list[1]) ELSE ""

\* ------------------------------------------------------ build_word_info
\* The dictionary a word is given when it is first seen.
EmptyData == [synonyms |-> {}, antonyms |-> {}, definition |-> {}]

\* A mis-written filter: every term of the synset, the word included.
EntryNoSelfCheck(old, word, terms, antonyms, definition) ==
  [synonyms |-> old.synonyms \cup Range(terms),
   antonyms |-> old.antonyms \cup Range(antonyms),
   definition |-> IF definition # "" THEN old.definition \cup {definition}
                  ELSE old.definition]

\* What one synset adds to the data of one of its terms.
Entry(old, word, terms, antonyms, definition) ==
  [synonyms |-> old.synonyms \cup {terms[i] : i \in {j \in DOMAIN terms : terms[j] # word}},
   antonyms |-> old.antonyms \cup Range(antonyms),
   definition |-> IF definition # "" THEN old.definition \cup {definition}
                  ELSE old.definition]

\* Only the first term of the synset is given an entry.
RECURSIVE AddTermsFirstOnly(_, _, _, _, _, _, _, _, _)
AddTermsFirstOnly(k, pos, todo, terms, antonyms, definition, C, D, I) ==
  IF todo = <<>> THEN [cats |-> C, data |-> D, info |-> I]
  ELSE
    LET word == Head(todo)
        fresh == word \notin DOMAIN I
        I1 == IF fresh THEN (word :> <<k, word>>) @@ I ELSE I
        C1 == IF fresh THEN (<<k, word>> :> (pos :> <<k, word>>)) @@ C ELSE C
        D1 == IF fresh THEN (<<k, word>> :> EmptyData) @@ D ELSE D
        id == C1[I1[word]][pos]
        D2 == [D1 EXCEPT ![id] = Entry(D1[id], word, terms, antonyms, definition)]
    IN [cats |-> C1, data |-> D2, info |-> I1]

\* for word in terms: ... over the heap (C, D) and the dictionary I that
\* build_word_info call number k is filling.  The objects the call creates
\* for a word w are both named <<k, w>>.
RECURSIVE AddTerms(_, _, _, _, _, _, _, _, _)
AddTerms(k, pos, todo, terms, antonyms, definition, C, D, I) ==
  IF todo = <<>> THEN [cats |-> C, data |-> D, info |-> I]
  ELSE
    LET word == Head(todo)
        fresh == word \notin DOMAIN I
        I1 == IF fresh THEN (word :> <<k, word>>) @@ I ELSE I
        C1 == IF fresh THEN (<<k, word>> :> (pos :> <<k, word>>)) @@ C ELSE C
        D1 == IF fresh THEN (<<k, word>> :> EmptyData) @@ D ELSE D
        id == C1[I1[word]][pos]
        D2 == [D1 EXCEPT ![id] = Entry(D1[id], word, terms, antonyms, definition)]
    IN AddTerms(k, pos, Tail(todo), terms, antonyms, definition, C1, D2, I1)

\* A builder that drops a synset contributing nothing but a lone term.
AddSynsetSkipBare(k, pos, rawterms, rawants, deflist, C, D, I) ==
  LET terms == Cleaned(rawterms)
      antonyms == Cleaned(rawants)
      definition == Definition(deflist)
  IN IF Cardinality(Range(terms)) <= 1 /\ antonyms = <<>> /\ definition = ""
     THEN [cats |-> C, data |-> D, info |-> I]
     ELSE AddTerms(k, pos, terms, terms, antonyms, definition, C, D, I)

\* The body of "for synset in root.findall('synset')".
AddSynset(k, pos, rawterms, rawants, deflist, C, D, I) ==
  LET terms == Cleaned(rawterms)
      antonyms == Cleaned(rawants)
      definition == Definition(deflist)
  IN AddTerms(k, pos, terms, terms, antonyms, definition, C, D, I)

\* -------------------------------------------------- combine_dicionaries
\* Innermost level: dict1 and dict2 are the field dictionaries f1 and f2,
\* whose values are sets (not dicts), so a key present in both is updated
\* in place.  Both always hold the same three keys.
CombineData(D, f1, f2) ==
  [D EXCEPT ![f1] =
     [key \in DOMAIN D[f1] \cup DOMAIN D[f2] |->
        IF key \in DOMAIN D[f1] /\ key \in DOMAIN D[f2]
          THEN D[f1][key] \cup D[f2][key]
        ELSE IF key \in DOMAIN D[f2] THEN D[f2][key]
        ELSE D[f1][key]]]

\* Middle level: dict1 and dict2 are the category dictionaries c1 and c2.
\* A category missing from c1 receives a reference to c2's field dictionary.
RECURSIVE CombineCats(_, _, _, _, _)
CombineCats(C, D, c1, c2, todo) ==
  IF todo = {} THEN [cats |-> C, data |-> D]
  ELSE
    LET key == CHOOSE x \in todo : TRUE
    IN IF key \in DOMAIN C[c1]
       THEN CombineCats(C, CombineData(D, C[c1][key], C[c2][key]), c1, c2, todo \ {key})
       ELSE CombineCats([C EXCEPT ![c1] = (key :> C[c2][key]) @@ C[c1]], D, c1, c2,
                        todo \ {key})

\* A shallow merge: a word present in both is overwritten, as dict.update does.
RECURSIVE combine_shallow(_, _, _, _, _)
combine_shallow(C, D, dict1, dict2, todo) ==
  IF todo = {} THEN [cats |-> C, data |-> D, info |-> dict1]
  ELSE
    LET key == CHOOSE x \in todo : TRUE
    IN combine_shallow(C, D, (key :> dict2[key]) @@ dict1, dict2, todo \ {key})

\* Top level: dict1 and dict2 map words to category dictionaries.  A word
\* missing from dict1 receives a reference to dict2's category dictionary.
RECURSIVE combine_dicionaries(_, _, _, _, _)
combine_dicionaries(C, D, dict1, dict2, todo) ==
  IF todo = {} THEN [cats |-> C, data |-> D, info |-> dict1]
  ELSE
    LET key == CHOOSE x \in todo : TRUE
    IN IF key \in DOMAIN dict1
       THEN LET r == CombineCats(C, D, dict1[key], dict2[key], DOMAIN C[dict2[key]])
            IN combine_dicionaries(r.cats, r.data, dict1, dict2, todo \ {key})
       ELSE combine_dicionaries(C, D, (key :> dict2[key]) @@ dict1, dict2, todo \ {key})

\* The nested dictionary reachable from a top-level dictionary, by value.
Content(C, D, info) ==
  [w \in DOMAIN info |-> [pos \in DOMAIN C[info[w]] |-> D[C[info[w]][pos]]]]

\* ------------------------------------------------------------ play_game
\* The orders in which a set can be listed.
Perms(S) == {s \in [1..Cardinality(S) -> S] : Range(s) = S}

\* for part_of_speech, info in word_info[current_word].items():
\*     for synonym in info["synonyms"]:
\* The words met by the two loops, in order.  The JSON file stores each set
\* as a list in the order list(set) produced and each category dictionary in
\* its insertion order; neither order is specified, and a word is expanded at
\* most once in a search, so the order is drawn where the lists are walked.
RECURSIVE Walks(_, _)
Walks(entry, todo) ==
  IF todo = {} THEN {<<>>}
  ELSE UNION {{p \o rest : p \in Perms(entry[pos].synonyms),
                           rest \in Walks(entry, todo \ {pos})} : pos \in todo}

\* The predecessor is rewritten for a synonym that was already visited.
RECURSIVE VisitOverwrite(_, _, _, _)
VisitOverwrite(visited, queue, current_word, syns) ==
  IF syns = <<>> THEN [visited |-> visited, queue |-> queue]
  ELSE
    LET synonym == Head(syns)
    IN IF synonym \notin DOMAIN visited
       THEN VisitOverwrite((synonym :> <<current_word>>) @@ visited,
                           Append(queue, synonym), current_word, Tail(syns))
       ELSE VisitOverwrite((synonym :> <<current_word>>) @@ visited,
                           queue, current_word, Tail(syns))

\* Only the first synonym met is looked at.
RECURSIVE VisitFirstOnly(_, _, _, _)
VisitFirstOnly(visited, queue, current_word, syns) ==
  IF syns = <<>> THEN [visited |-> visited, queue |-> queue]
  ELSE
    LET synonym == Head(syns)
    IN IF synonym \notin DOMAIN visited
       THEN [visited |-> (synonym :> <<current_word>>) @@ visited,
             queue |-> Append(queue, synonym)]
       ELSE [visited |-> visited, queue |-> queue]

\* if synonym not in visited: visited[synonym] = current_word; queue.append(synonym)
\* visited maps a word to <<its predecessor>>, the start word to <<>> (None).
RECURSIVE Visit(_, _, _, _)
Visit(visited, queue, current_word, syns) ==
  IF syns = <<>> THEN [visited |-> visited, queue |-> queue]
  ELSE
    LET synonym == Head(syns)
    IN IF synonym \notin DOMAIN visited
       THEN Visit((synonym :> <<current_word>>) @@ visited,
                  Append(queue, synonym), current_word, Tail(syns))
       ELSE Visit(visited, queue, current_word, Tail(syns))

\* path.append instead of path.insert(0, ...): the path comes out reversed.
RECURSIVE ReconstructAppend(_, _, _, _)
ReconstructAppend(visited, start, path, current_word) ==
  IF current_word = start THEN path
  ELSE ReconstructAppend(visited, start, Append(path, visited[current_word][1]),
                         visited[current_word][1])

\* while current_word != start_word:
\*     current_word = visited[current_word]; path.insert(0, current_word)
RECURSIVE Reconstruct(_, _, _, _)
Reconstruct(visited, start, path, current_word) ==
  IF current_word = start THEN path
  ELSE Reconstruct(visited, start, <<visited[current_word][1]>> \o path,
                   visited[current_word][1])

\* What is printed once the search loop is left.
Conclude(visited, start, end) ==
  IF end \notin DOMAIN visited
  THEN [outcome |-> "NoPathFound", path |-> <<>>]
  ELSE [outcome |-> "Path", path |-> Reconstruct(visited, start, <<end>>, end)]

\* ---------------------------------------------------------------- state
VARIABLES
  pc,              \* "files", "synsets": make_word_info_json;
                   \* "start", "end", "bfs", "crashed": play_game
  nfiles,          \* build_word_info calls made
  nsyn,            \* synsets read
  part_of_speech,  \* build_word_info: part_of_speech
  cats,            \* heap: category dictionaries, id -> (category -> id)
  data,            \* heap: field dictionaries, id -> the three sets
  current_info,    \* the dictionary build_word_info is filling: word -> id
  word_info,       \* make_word_info_json: word_info, word -> id
  partials,        \* the dictionaries build_word_info has returned
  built,           \* their contents at the time they were returned
  seen,            \* the terms of the synsets read from the current file
  thesaurus,       \* play_game: word_info, as loaded from word_info.json
  typed,           \* the lines typed in the current round
  start_word, end_word, visited, queue,
  path,            \* the path printed, <<>> if none
  outcome,         \* what the current round printed, "none" if nothing yet
  unknown          \* the word named by the "not found" message

vars == <<pc, nfiles, nsyn, part_of_speech, cats, data, current_info, word_info,
          partials, built, seen, thesaurus, typed, start_word, end_word,
          visited, queue, path, outcome, unknown>>

buildVars == <<nfiles, nsyn, part_of_speech, cats, data, current_info, word_info,
               partials, built, seen>>
gameVars == <<thesaurus, typed, start_word, end_word, visited, queue, path,
              outcome, unknown>>

Init ==
  /\ pc = "files"
  /\ nfiles = 0
  /\ nsyn = 0
  /\ part_of_speech = ""
  /\ cats = <<>>
  /\ data = <<>>
  /\ current_info = <<>>
  /\ word_info = <<>>
  /\ partials = <<>>
  /\ built = <<>>
  /\ seen = {}
  /\ thesaurus = <<>>
  /\ typed = <<>>
  /\ start_word = ""
  /\ end_word = ""
  /\ visited = <<>>
  /\ queue = <<>>
  /\ path = <<>>
  /\ outcome = "none"
  /\ unknown = ""

\* ------------------------------------------------- make_word_info_json
\* build_word_info is entered and the file parses.
BeginFile(xml_file) ==
  /\ pc = "files"
  /\ nfiles < MaxFiles
  /\ nfiles' = nfiles + 1
  /\ part_of_speech' = PartOfSpeech(xml_file)
  /\ current_info' = <<>>
  /\ seen' = {}
  /\ pc' = "synsets"
  /\ UNCHANGED <<nsyn, cats, data, word_info, partials, built>>
  /\ UNCHANGED gameVars

\* etree.parse raises: build_word_info returns {} and that is merged.
UnreadableFile(xml_file) ==
  /\ pc = "files"
  /\ nfiles < MaxFiles
  /\ nfiles' = nfiles + 1
  /\ part_of_speech' = PartOfSpeech(xml_file)
  /\ current_info' = <<>>
  /\ seen' = {}
  /\ LET r == combine_dicionaries(cats, data, word_info, <<>>, {})
     IN /\ cats' = r.cats
        /\ data' = r.data
        /\ word_info' = r.info
  /\ partials' = Append(partials, <<>>)
  /\ built' = Append(built, <<>>)
  /\ pc' = "files"
  /\ UNCHANGED nsyn
  /\ UNCHANGED gameVars

\* One <synset> element is read.
Synset(rawterms, rawants, deflist) ==
  /\ pc = "synsets"
  /\ nsyn' = nsyn + 1
  /\ LET r == AddSynset(nfiles, part_of_speech, rawterms, rawants, deflist,
                        cats, data, current_info)
     IN /\ cats' = r.cats
        /\ data' = r.data
        /\ current_info' = r.info
  /\ seen' = seen \cup Range(Cleaned(rawterms))
  /\ UNCHANGED <<pc, nfiles, part_of_speech, word_info, partials, built>>
  /\ UNCHANGED gameVars

\* build_word_info returns and the result is merged into word_info.
EndFile ==
  /\ pc = "synsets"
  /\ LET r == combine_dicionaries(cats, data, word_info, current_info,
                                  DOMAIN current_info)
     IN /\ cats' = r.cats
        /\ data' = r.data
        /\ word_info' = r.info
  /\ partials' = Append(partials, current_info)
  /\ built' = Append(built, Content(cats, data, current_info))
  /\ pc' = "files"
  /\ UNCHANGED <<nfiles, nsyn, part_of_speech, current_info, seen>>
  /\ UNCHANGED gameVars

\* convert_sets_to_lists, json.dump, json.load, play_game is entered.  The
\* file holds the dictionary by value; the builder's objects are dropped.
Load ==
  /\ pc = "files"
  /\ thesaurus' = Content(cats, data, word_info)
  /\ pc' = "start"
  /\ nfiles' = 0
  /\ nsyn' = 0
  /\ part_of_speech' = ""
  /\ cats' = <<>>
  /\ data' = <<>>
  /\ current_info' = <<>>
  /\ word_info' = <<>>
  /\ partials' = <<>>
  /\ built' = <<>>
  /\ seen' = {}
  /\ UNCHANGED <<typed, start_word, end_word, visited, queue, path, outcome, unknown>>

\* ------------------------------------------------------------ play_game
\* The first prompt.
ReadStart(raw) ==
  /\ pc = "start"
  /\ typed' = <<raw>>
  /\ start_word' = Lower(Strip(raw))
  /\ end_word' = ""
  /\ visited' = <<>>
  /\ queue' = <<>>
  /\ path' = <<>>
  /\ IF start_word' \notin DOMAIN thesaurus
     THEN /\ outcome' = "WordUnknown"
          /\ unknown' = start_word'
          /\ pc' = "start"
     ELSE /\ outcome' = "none"
          /\ unknown' = ""
          /\ pc' = "end"
  /\ UNCHANGED thesaurus
  /\ UNCHANGED buildVars

\* The second prompt is answered without the comparison of the two words.
ReadEndNoSameCheck(raw) ==
  /\ pc = "end"
  /\ typed' = Append(typed, raw)
  /\ end_word' = Lower(Strip(raw))
  /\ IF end_word' \notin DOMAIN thesaurus
     THEN /\ outcome' = "WordUnknown"
          /\ unknown' = end_word'
          /\ pc' = "start"
          /\ UNCHANGED <<visited, queue>>
     ELSE /\ visited' = (start_word :> <<>>)
          /\ queue' = <<start_word>>
          /\ pc' = "bfs"
          /\ UNCHANGED <<outcome, unknown>>
  /\ UNCHANGED <<thesaurus, start_word, path>>
  /\ UNCHANGED buildVars

\* The second prompt is answered without the look-up of the end word.
ReadEndNoLookup(raw) ==
  /\ pc = "end"
  /\ typed' = Append(typed, raw)
  /\ end_word' = Lower(Strip(raw))
  /\ IF start_word = end_word'
     THEN /\ outcome' = "InvalidQuery"
          /\ pc' = "start"
          /\ UNCHANGED <<visited, queue, unknown>>
     ELSE /\ visited' = (start_word :> <<>>)
          /\ queue' = <<start_word>>
          /\ pc' = "bfs"
          /\ UNCHANGED <<outcome, unknown>>
  /\ UNCHANGED <<thesaurus, start_word, path>>
  /\ UNCHANGED buildVars

\* The second prompt, the comparison of the two words, the search is set up.
ReadEnd(raw) ==
  /\ pc = "end"
  /\ typed' = Append(typed, raw)
  /\ end_word' = Lower(Strip(raw))
  /\ IF end_word' \notin DOMAIN thesaurus
     THEN /\ outcome' = "WordUnknown"
          /\ unknown' = end_word'
          /\ pc' = "start"
          /\ UNCHANGED <<visited, queue>>
     ELSE IF start_word = end_word'
     THEN /\ outcome' = "InvalidQuery"
          /\ pc' = "start"
          /\ UNCHANGED <<visited, queue, unknown>>
     ELSE /\ visited' = (start_word :> <<>>)
          /\ queue' = <<start_word>>
          /\ pc' = "bfs"
          /\ UNCHANGED <<outcome, unknown>>
  /\ UNCHANGED <<thesaurus, start_word, path>>
  /\ UNCHANGED buildVars

\* One turn of "while queue:", and the report when the loop is left.
BfsStep ==
  /\ pc = "bfs"
  /\ queue # <<>>
  /\ LET current_word == Head(queue)
         rest == Tail(queue)
     IN IF current_word = end_word
        THEN LET c == Conclude(visited, start_word, end_word)
             IN /\ queue' = rest
                /\ outcome' = c.outcome
                /\ path' = c.path
                /\ pc' = "start"
                /\ UNCHANGED visited
        ELSE IF current_word \notin DOMAIN thesaurus
        THEN /\ queue' = rest
             /\ outcome' = "KeyError"
             /\ pc' = "crashed"
             /\ UNCHANGED <<visited, path>>
        ELSE \E syns \in Walks(thesaurus[current_word], DOMAIN thesaurus[current_word]) :
               LET r == Visit(visited, rest, current_word, syns)
               IN /\ visited' = r.visited
                  /\ queue' = r.queue
                  /\ IF r.queue = <<>>
                     THEN LET c == Conclude(r.visited, start_word, end_word)
                          IN /\ outcome' = c.outcome
                             /\ path' = c.path
                             /\ pc' = "start"
                     ELSE UNCHANGED <<outcome, path, pc>>
  /\ UNCHANGED <<thesaurus, typed, start_word, end_word, unknown>>
  /\ UNCHANGED buildVars

\* make_word_info_json on its own, synsets with antonyms and definitions.
Next ==
  \/ \E f \in XmlFiles : BeginFile(f)
  \/ \E f \in XmlFiles : UnreadableFile(f)
  \/ \E t \in SeqsUpTo(RawTerms, MaxTerms), a \in SeqsUpTo(RawAnts, MaxAnts),
        d \in SeqsUpTo(RawDefs, 1) : nsyn < MaxSynsets /\ Synset(t, a, d)
  \/ EndFile

Spec == Init /\ [][Next]_vars

\* main: the thesaurus is built, stored, loaded and played on.  The search
\* reads the synonym sets only, so the synsets carry terms alone.
LadderNext ==
  \/ \E f \in XmlFiles : BeginFile(f)
  \/ \E f \in XmlFiles : UnreadableFile(f)
  \/ \E t \in SeqsUpTo(RawTerms, MaxTerms) : nsyn < MaxLadder /\ Synset(t, <<>>, <<>>)
  \/ EndFile
  \/ Load
  \/ \E raw \in RawInputs : ReadStart(raw)
  \/ \E raw \in RawInputs : ReadEnd(raw)
  \/ BfsStep

Ladder == Init /\ [][LadderNext]_vars

\* =============================================================== claims
Fields == {"synonyms", "antonyms", "definition"}

\* The graphs the builder holds, by value.
Current == Content(cats, data, current_info)
Unified == Content(cats, data, word_info)

\* The directed synonym edges of the loaded thesaurus.
Succ(w) ==
  IF w \in DOMAIN thesaurus
  THEN UNION {thesaurus[w][pos].synonyms : pos \in DOMAIN thesaurus[w]}
  ELSE {}

AllWords == DOMAIN thesaurus \cup UNION {Succ(w) : w \in DOMAIN thesaurus}

\* The words at most n edges away from s.
RECURSIVE Ball(_, _)
Ball(s, n) ==
  IF n = 0 THEN {s}
  ELSE LET B == Ball(s, n - 1) IN B \cup UNION {Succ(w) : w \in B}

Reachable(s, e) == e \in Ball(s, Cardinality(AllWords))

\* The least number of edges of a chain from s to e.
Dist(s, e) ==
  CHOOSE n \in 0..Cardinality(AllWords) :
    e \in Ball(s, n) /\ \A m \in 0..(n - 1) : e \notin Ball(s, m)

\* A round of play_game has printed its result.
Answered == pc = "start" /\ outcome # "none"

\* Both words were read, are keys and differ.
ProperQuery ==
  /\ Answered
  /\ Len(typed) = 2
  /\ start_word \in DOMAIN thesaurus
  /\ end_word \in DOMAIN thesaurus
  /\ start_word # end_word

NoSearch == visited = <<>> /\ queue = <<>> /\ path = <<>>

\* C1: for distinct start and end words that are keys, with the end word
\* reachable along directed synonym edges, the path the search prints has
\* the least number of hops of any chain from start to end.
C1_ShortestPath ==
  (ProperQuery /\ Reachable(start_word, end_word) /\ outcome = "Path")
    => Len(path) - 1 = Dist(start_word, end_word)

\* A two-hop path was printed although a three-hop chain through the same
\* second word exists.
C1_Witness ==
  /\ ProperQuery
  /\ outcome = "Path"
  /\ Len(path) = 3
  /\ \E w \in Succ(path[2]) \ Range(path) : end_word \in Succ(w)

\* C2: a printed path is a sequence of at least one word that begins with
\* the start word, ends with the end word, and whose every word is in a
\* synonym set of the word before it.
C2_PathIsChain ==
  (Answered /\ outcome = "Path")
    => /\ Len(path) >= 1
       /\ path[1] = start_word
       /\ path[Len(path)] = end_word
       /\ \A i \in 1..(Len(path) - 1) : path[i + 1] \in Succ(path[i])

\* A path of three hops was printed.
C2_Witness == Answered /\ outcome = "Path" /\ Len(path) = 4

\* C3: for distinct start and end words that are keys, the round reports
\* NoPathFound exactly when no chain of synonym edges leads from start to
\* end, it then prints no path, a chain that exists yields a path, and the
\* search does not fail.
C3_NoPathIffUnreachable ==
  /\ pc # "crashed"
  /\ ProperQuery =>
       /\ outcome \in {"Path", "NoPathFound"}
       /\ outcome = "NoPathFound" <=> ~Reachable(start_word, end_word)
       /\ outcome = "NoPathFound" => path = <<>>
       /\ Reachable(start_word, end_word) => outcome = "Path" /\ path # <<>>

\* NoPathFound was reported after a search that left the start word, for an
\* end word that has synonyms of its own.
C3_Witness ==
  /\ ProperQuery
  /\ outcome = "NoPathFound"
  /\ Cardinality(DOMAIN visited) >= 2
  /\ Succ(end_word) # {}

\* C4: when the start word, or the end word once it is read, is not a key,
\* the round reports WordUnknown naming that word, no search is started and
\* no path or NoPathFound is reported; a search only ever runs on two keys.
C4_UnknownWord ==
  /\ pc # "crashed"
  /\ (pc = "bfs" \/ visited # <<>>) =>
       start_word \in DOMAIN thesaurus /\ end_word \in DOMAIN thesaurus
  /\ (Answered /\ start_word \notin DOMAIN thesaurus) =>
       outcome = "WordUnknown" /\ unknown = start_word /\ Len(typed) = 1 /\ NoSearch
  /\ (Answered /\ Len(typed) = 2 /\ end_word \notin DOMAIN thesaurus) =>
       outcome = "WordUnknown" /\ unknown = end_word /\ NoSearch

\* The end word of a query on a non-empty thesaurus was reported unknown.
C4_Witness ==
  /\ Answered
  /\ Len(typed) = 2
  /\ start_word \in DOMAIN thesaurus
  /\ outcome = "WordUnknown"
  /\ unknown = end_word
  /\ end_word # ""

\* C5, as claimed: a round whose start word is empty, or whose end word is
\* empty or equal to the start word, reports InvalidQuery without a search.
C5_Claimed ==
  (Answered /\ (start_word = ""
                \/ (Len(typed) = 2 /\ (end_word = "" \/ end_word = start_word))))
    => outcome = "InvalidQuery" /\ NoSearch

\* C5, amended: an end word equal to the start word (which is then a key)
\* is rejected with InvalidQuery and no search; an empty word is rejected
\* as an unknown word, with no search; no search runs on equal or empty
\* words, and InvalidQuery is reported for equal words only.
C5_SameOrEmpty ==
  /\ (pc = "bfs" \/ visited # <<>>) =>
       start_word # end_word /\ start_word # "" /\ end_word # ""
  /\ (Answered /\ Len(typed) = 2 /\ end_word = start_word) =>
       outcome = "InvalidQuery" /\ start_word \in DOMAIN thesaurus /\ NoSearch
  /\ (Answered /\ (start_word = "" \/ (Len(typed) = 2 /\ end_word = ""))) =>
       outcome = "WordUnknown" /\ unknown = "" /\ NoSearch
  /\ (Answered /\ outcome = "InvalidQuery") =>
       Len(typed) = 2 /\ end_word = start_word

\* Two lines that differ as typed were rejected as the same word.
C5_Witness ==
  /\ Answered
  /\ outcome = "InvalidQuery"
  /\ typed[1] # typed[2]

NoSelf(g) ==
  \A w \in DOMAIN g : \A pos \in DOMAIN g[w] : w \notin g[w][pos].synonyms

\* C6: in every graph built from synsets (a repeated term included) and
\* merged, no word is in its own synonym set under any category.
C6_NoSelfSynonym == NoSelf(Current) /\ NoSelf(Unified)

\* Two files were merged and some word has synonyms under two categories.
C6_Witness ==
  /\ Len(built) = 2
  /\ \E w \in DOMAIN Unified :
       /\ Cardinality(DOMAIN Unified[w]) = 2
       /\ \A pos \in DOMAIN Unified[w] : Unified[w][pos].synonyms # {}

\* The union, word by word, category by category and field by field, of a
\* set of graphs.
UnionGraph(S) ==
  [w \in UNION {DOMAIN g : g \in S} |->
    [pos \in UNION {DOMAIN g[w] : g \in {h \in S : w \in DOMAIN h}} |->
      [f \in Fields |->
        UNION {g[w][pos][f] :
               g \in {h \in S : w \in DOMAIN h /\ pos \in DOMAIN h[w]}}]]]

\* C7: the content of the unified graph is the union of the partial graphs
\* merged so far, whatever their order and however often each was merged.
C7_MergeIsUnion == Unified = UnionGraph(Range(built))

\* Two different partial graphs that share a word under the same category,
\* with different synonyms, were merged.
C7_Witness ==
  /\ Len(built) = 2
  /\ built[1] # built[2]
  /\ \E w \in DOMAIN built[1] \cap DOMAIN built[2] :
       \E pos \in DOMAIN built[1][w] \cap DOMAIN built[2][w] :
         /\ built[1][w][pos].synonyms \ built[2][w][pos].synonyms # {}
         /\ built[2][w][pos].synonyms \ built[1][w][pos].synonyms # {}

SomeFieldFilled(g) ==
  \A w \in DOMAIN g :
    \E pos \in DOMAIN g[w] : \E f \in Fields : g[w][pos][f] # {}

\* C8, as claimed: every key has a category entry with a non-empty field.
C8_Claimed == SomeFieldFilled(Current) /\ SomeFieldFilled(Unified)

WellFormed(g) ==
  \A w \in DOMAIN g :
    /\ DOMAIN g[w] # {}
    /\ \A pos \in DOMAIN g[w] : DOMAIN g[w][pos] = Fields

\* C8, amended: every key has at least one category entry, which holds the
\* three fields, empty or not; every term read from the current file is a
\* key, and stays one when the file is merged.
C8_EveryTermIsKey ==
  /\ WellFormed(Current)
  /\ WellFormed(Unified)
  /\ pc = "synsets" => DOMAIN current_info = seen
  /\ (pc = "files" /\ built # <<>>) => seen \subseteq DOMAIN word_info

\* A merged word whose three fields are empty under every category.
C8_Witness ==
  /\ pc = "files"
  /\ \E w \in DOMAIN Unified :
       \A pos \in DOMAIN Unified[w] : \A f \in Fields : Unified[w][pos][f] = {}

\* C9, as claimed: a partial graph that was merged is left as it was
\* returned by every later merge.
C9_Claimed ==
  \A i \in DOMAIN partials : Content(cats, data, partials[i]) = built[i]

Closed(g) ==
  \A w \in DOMAIN g : \A pos \in DOMAIN g[w] : g[w][pos].synonyms \subseteq DOMAIN g

\* C10: every word in a synonym set of a built, merged or loaded graph is a
\* key of that graph; every word on the frontier is a key and the search
\* never fails to look a word up.
C10_SynonymsAreKeys ==
  /\ Closed(Current)
  /\ Closed(Unified)
  /\ Closed(thesaurus)
  /\ Range(queue) \subseteq DOMAIN thesaurus
  /\ pc # "crashed"
  /\ outcome # "KeyError"

\* The frontier holds two words the search discovered.
C10_Witness ==
  /\ pc = "bfs"
  /\ Len(queue) >= 2
  /\ start_word \notin Range(queue)

====
